---- MODULE Spec2Model ----
(***************************************************************************)
(* Linguist Live: the session lifecycle, the playback scheduler and the    *)
(* turn aggregator of the App component, as a state machine.               *)
(*                                                                         *)
(* The repository holds three variants of App with the same core:          *)
(*   variant 1  src/unnamed/part_003 lines   1..352                        *)
(*   variant 2  src/unnamed/part_003 lines 355..784                        *)
(*   variant 3  src/unnamed/part_004                                       *)
(* Line numbers in the comments are those of variant 3 unless a variant is *)
(* named.  Every handler (a click, a transport callback, the continuation  *)
(* of an await) is one action; an await is the only place where a handler  *)
(* is split in two.  Texts are sequences of one-character strings.         *)
(***************************************************************************)
EXTENDS Integers, Sequences, FiniteSets, TLC

\* ---------------------------------------------------------------- bounds
\* connect() invocations in one run
MaxConnects ==
    2
\* ticks of a clock (Date.now(), AudioContext.currentTime)
MaxNow ==
    1
\* content events received in one run, in the specifications that carry audio
MaxChunks ==
    2
\* content events received in one run
MaxEvents ==
    3

\* microphone samples are the multiples of 1/SampleScale
SampleScale ==
    100

Variants ==
    {1, 2, 3}

Attempts ==
    1..MaxConnects

\* the null of a ref that holds an attempt's object
Null ==
    0

Max(a, b) ==
    IF a >= b THEN a ELSE b

\* ------------------------------------------------------------------ text
Upper ==
    <<"A","B","C","D","E","F","G","H","I","J","K","L","M",
      "N","O","P","Q","R","S","T","U","V","W","X","Y","Z">>

Lower ==
    <<"a","b","c","d","e","f","g","h","i","j","k","l","m",
      "n","o","p","q","r","s","t","u","v","w","x","y","z">>

LowerChar(c) ==
    IF \E i \in 1..26 : Upper[i] = c
    THEN Lower[CHOOSE i \in 1..26 : Upper[i] = c]
    ELSE c

\* String.prototype.toLowerCase
toLowerCase(s) ==
    [i \in 1..Len(s) |-> LowerChar(s[i])]

IsSpace(c) ==
    c \in {" ", "\t", "\n"}

RECURSIVE TrimStart(_)
TrimStart(s) ==
    IF s # <<>> /\ IsSpace(Head(s)) THEN TrimStart(Tail(s)) ELSE s

RECURSIVE TrimEnd(_)
TrimEnd(s) ==
    IF s # <<>> /\ IsSpace(s[Len(s)]) THEN TrimEnd(SubSeq(s, 1, Len(s) - 1)) ELSE s

\* String.prototype.trim
trim(s) ==
    TrimEnd(TrimStart(s))

\* String.prototype.includes
includes(s, pat) ==
    \E i \in 1..(Len(s) - Len(pat) + 1) : SubSeq(s, i, i + Len(pat) - 1) = pat

\* the two alternatives of the regular expression /<noise>|\[noise\]/gi
NoiseAngle ==
    <<"<","n","o","i","s","e",">">>

NoiseBracket ==
    <<"[","n","o","i","s","e","]">>

\* the regular expression matches at the head of s, letter case ignored (flag i)
NoiseAtHead(s) ==
    /\ Len(s) >= Len(NoiseAngle)
    /\ toLowerCase(SubSeq(s, 1, Len(NoiseAngle))) \in {NoiseAngle, NoiseBracket}

\* s.replace(/<noise>|\[noise\]/gi, ''): one pass, left to right, every match
\* removed, the scan resuming after the match (flag g)
RECURSIVE replaceNoise(_)
replaceNoise(s) ==
    IF s = <<>> THEN <<>>
    ELSE IF NoiseAtHead(s)
         THEN replaceNoise(SubSeq(s, Len(NoiseAngle) + 1, Len(s)))
         ELSE <<Head(s)>> \o replaceNoise(Tail(s))

MarkerCorrection ==
    <<"c","o","r","r","e","c","t","i","o","n",":">>

MarkerKoreksi ==
    <<"k","o","r","e","k","s","i",":">>

MarkerTip ==
    <<"t","i","p",":">>

\* the first marker of isCorrection: 'correction:' in variants 1 and 3,
\* 'koreksi:' in variant 2
CorrectionMarker(v) ==
    IF v = 2 THEN MarkerKoreksi ELSE MarkerCorrection

\* a classification that compares the text without lowering its case
isCorrectionCaseSensitive(v, fullOut) ==
    \/ includes(fullOut, CorrectionMarker(v))
    \/ includes(fullOut, MarkerTip)

\* const isCorrection = fullOut.toLowerCase().includes(<marker>)
\*                   || fullOut.toLowerCase().includes('tip:')
isCorrection(v, fullOut) ==
    \/ includes(toLowerCase(fullOut), CorrectionMarker(v))
    \/ includes(toLowerCase(fullOut), MarkerTip)

\* the text appended to currentInput for an input transcription (line 161)
InputText(raw) ==
    trim(replaceNoise(raw))

\* a finalization that tests the accumulator without trimming it
FinalizesUntrimmed(full) ==
    full # <<>>

\* if (fullIn.trim()) / if (fullOut.trim()): a Message is emitted (167, 179)
Finalizes(full) ==
    trim(full) # <<>>

\* a finalization that empties an accumulator only when it emits a Message
AfterFinalizeEmitted(full) ==
    IF trim(full) # <<>> THEN <<>> ELSE full

\* the value both accumulators take at turn-complete (return '', 176 and 189)
AfterFinalize(full) ==
    <<>>

\* a user Message classified by the markers, as the model's Messages are
UserMessageClassified(t, fullIn) ==
    [id |-> <<t, "-in">>, role |-> "user", text |-> fullIn,
     type |-> IF isCorrection(3, fullIn) THEN "correction" ELSE "chat",
     timestamp |-> t]

\* the user Message of a turn (168-174): its type is the literal 'chat'
UserMessage(t, fullIn) ==
    [id |-> <<t, "-in">>, role |-> "user", text |-> fullIn,
     type |-> "chat", timestamp |-> t]

ModelMessage(v, t, fullOut) ==
    [id |-> <<t, "-out">>, role |-> "model", text |-> fullOut,
     type |-> IF isCorrection(v, fullOut) THEN "correction" ELSE "chat",
     timestamp |-> t]

\* ----------------------------------------------------------------- state
VARIABLES
    variant,                \* which App variant runs
    status,                 \* useState: SessionStatus
    messages,               \* useState: Message[]
    currentInput,           \* useState: the user accumulator
    currentOutput,          \* useState: the model accumulator
    error,                  \* useState: string | null
    inputAudioContextRef,   \* refs: Null or the attempt whose object it holds
    outputAudioContextRef,
    inputAnalyserRef,
    outputAnalyserRef,
    sessionRef,
    sourcesRef,             \* Set<AudioBufferSourceNode>: indices into sources
    nextStartTimeRef,       \* the playback cursor
    conn,                   \* per connect() invocation: its position and objects
    decodes,                \* onmessage handlers suspended at await decodeAudioData
    sources,                \* every AudioBufferSourceNode created, in order
    nEvents,                \* content events received so far
    now,                    \* Date.now()
    ev,                     \* history: the handler that ran last
    fragsIn,                \* history: raw user fragments since the last reset
    fragsOut,               \* history: raw model fragments since the last reset
    shadow                  \* history: the cursor of the same run with the malformed
                            \* chunks left out, and how many were left out

vars ==
    <<variant, status, messages, currentInput, currentOutput, error,
      inputAudioContextRef, outputAudioContextRef, inputAnalyserRef,
      outputAnalyserRef, sessionRef, sourcesRef, nextStartTimeRef, conn,
      decodes, sources, nEvents, now, ev, fragsIn, fragsOut, shadow>>

reactVars ==
    <<status, messages, currentInput, currentOutput, error>>

refVars ==
    <<inputAudioContextRef, outputAudioContextRef, inputAnalyserRef,
      outputAnalyserRef, sessionRef>>

schedVars ==
    <<sourcesRef, nextStartTimeRef, decodes, sources, nEvents, shadow>>

textVars ==
    <<messages, currentInput, currentOutput, fragsIn, fragsOut>>

\* a connect() invocation that has not been made yet
IdleConn ==
    [pc |-> "idle", inputCtx |-> "none", outputCtx |-> "none", time |-> 0,
     stream |-> FALSE, session |-> "none", wired |-> FALSE]

\* the record of the handler that ran: which one, for which attempt, and what
\* it did (disc: disconnect() ran, and again: the handler before it had run
\* disconnect() too; intr: the interrupted branch ran; tc: the turnComplete
\* branch ran, with the raw fragments it finalized; bad: it handled an audio
\* chunk whose decode fails; threw: it ended by an uncaught exception), and
\* one fact that outlives the handler (ended: a close or error event of the
\* transport has ended a CONNECTED session and no start request was made
\* since); for the capture callback, sample and pcm: the microphone sample it
\* read, in units of 1/SampleScale, and the 16-bit integer it sent for it;
\* for onmessage and its continuation, interrupted: the message carried the
\* interrupted marker; for a handler that ran disconnect(), dropped: an
\* accumulator held text of an unfinished turn when it ran
Ev(op, k) ==
    [op |-> op, k |-> k, disc |-> FALSE, intr |-> FALSE, tc |-> FALSE,
     bad |-> FALSE, threw |-> FALSE, again |-> FALSE,
     turnIn |-> <<>>, turnOut |-> <<>>, ended |-> ev.ended,
     sample |-> 0, pcm |-> 0, interrupted |-> FALSE,
     dropped |-> FALSE]

\* audioCtx.currentTime of the output context of attempt k
currentTime(k) ==
    conn[k].time

Init ==
    /\ variant \in Variants
    /\ status = "DISCONNECTED"
    /\ messages = <<>>
    /\ currentInput = <<>>
    /\ currentOutput = <<>>
    /\ error = "null"
    /\ inputAudioContextRef = Null
    /\ outputAudioContextRef = Null
    /\ inputAnalyserRef = Null
    /\ outputAnalyserRef = Null
    /\ sessionRef = Null
    /\ sourcesRef = {}
    /\ nextStartTimeRef = 0
    /\ conn = [k \in Attempts |-> IdleConn]
    /\ decodes = {}
    /\ sources = <<>>
    /\ nEvents = 0
    /\ now = 0
    /\ ev = [op |-> "init", k |-> Null, disc |-> FALSE, intr |-> FALSE,
             tc |-> FALSE, bad |-> FALSE, threw |-> FALSE, again |-> FALSE,
             turnIn |-> <<>>, turnOut |-> <<>>, ended |-> FALSE,
             sample |-> 0, pcm |-> 0, interrupted |-> FALSE,
             dropped |-> FALSE]
    /\ fragsIn = <<>>
    /\ fragsOut = <<>>
    /\ shadow = [cursor |-> 0, bad |-> 0]


\* ------------------------------------------------------------- teardown
\* sessionRef.current.close() inside try/catch (70-73): the socket of the
\* attempt held by sessionRef starts closing; closing a socket that is already
\* closing or closed does nothing
closeSession(c, k) ==
    IF k # Null /\ c[k].session \in {"connecting", "open"}
    THEN [c EXCEPT ![k].session = "closing"]
    ELSE c

\* if (inputAudioContextRef.current) inputAudioContextRef.current.close();
\* if (outputAudioContextRef.current) outputAudioContextRef.current.close(); (81-82)
closeContexts(c, i, o) ==
    [k \in Attempts |->
        [c[k] EXCEPT !.inputCtx = IF k = i /\ @ = "running" THEN "closed" ELSE @,
                     !.outputCtx = IF k = o /\ @ = "running" THEN "closed" ELSE @]]

\* forEach(source => { try { source.stop(); } catch (e) {} }) (75-77, 211)
stopAll(srcs, ref) ==
    [i \in DOMAIN srcs |->
        IF i \in ref THEN [srcs[i] EXCEPT !.stopped = TRUE] ELSE srcs[i]]

\* the value nextStartTimeRef takes on a reset (79, 213)
ResetCursor ==
    0

\* a teardown that keeps the reference it should null
KeptRef(r) ==
    r

\* what disconnect stores in the context and analyser refs (84-87)
ClearedRef(r) ==
    Null

\* a teardown that keeps the text of the unfinished turn
KeptText(t) ==
    t

\* what disconnect stores in an accumulator (90-91)
ClearedText(t) ==
    <<>>

\* an accumulator holds text: a turn is unfinished
Unfinished ==
    currentInput # <<>> \/ currentOutput # <<>>

\* disconnect (69-93; variant 1: 36-59; variant 2: 421-445), run on the
\* connections c0 as the calling handler leaves them.  It leaves messages and
\* error alone.
disconnect(c0) ==
    /\ conn' = closeContexts(closeSession(c0, sessionRef),
                             inputAudioContextRef, outputAudioContextRef)
    /\ sessionRef' = Null
    /\ sources' = stopAll(sources, sourcesRef)
    /\ sourcesRef' = {}
    /\ nextStartTimeRef' = ResetCursor
    /\ inputAudioContextRef' = ClearedRef(inputAudioContextRef)
    /\ outputAudioContextRef' = ClearedRef(outputAudioContextRef)
    /\ inputAnalyserRef' = ClearedRef(inputAnalyserRef)
    /\ outputAnalyserRef' = ClearedRef(outputAnalyserRef)
    /\ status' = "DISCONNECTED"
    /\ currentInput' = ClearedText(currentInput)
    /\ currentOutput' = ClearedText(currentOutput)
    /\ fragsIn' = <<>>
    /\ fragsOut' = <<>>
    /\ shadow' = [shadow EXCEPT !.cursor = 0]
    /\ UNCHANGED <<decodes, nEvents>>

\* ------------------------------------------------------------ lifecycle
\* the session button while status is CONNECTED: disconnect() (280-282;
\* variant 1: handleToggleSession 214-217; variant 2: 632)
ClickStop ==
    /\ status = "CONNECTED"
    /\ disconnect(conn)
    /\ ev' = [Ev("stop", Null) EXCEPT !.disc = TRUE, !.again = ev.disc,
                                      !.dropped = Unfinished]
    /\ UNCHANGED <<variant, messages, error, now>>

\* the session button is enabled for a start request: always in variants 2 and
\* 3, where the only test is status === CONNECTED; in variant 1 the button is
\* disabled while CONNECTING (part_003 298)
StartEnabled ==
    /\ status # "CONNECTED"
    /\ variant = 1 => status # "CONNECTING"

\* the session button otherwise: connect() up to its first await (95-113)
ClickStart ==
    /\ StartEnabled
    /\ \E k \in Attempts :
        /\ conn[k].pc = "idle"
        /\ \A j \in Attempts : j < k => conn[j].pc # "idle"
        /\ status' = "CONNECTING"
        /\ error' = "null"
        /\ conn' = [conn EXCEPT ![k] = [@ EXCEPT !.pc = "getUserMedia",
                                                 !.inputCtx = "running",
                                                 !.outputCtx = "running",
                                                 !.time = 0]]
        /\ inputAudioContextRef' = k
        /\ outputAudioContextRef' = k
        /\ inputAnalyserRef' = k
        /\ outputAnalyserRef' = k
        /\ ev' = [Ev("start", k) EXCEPT !.ended = FALSE]
    /\ UNCHANGED <<variant, sessionRef, now>>
    /\ UNCHANGED schedVars
    /\ UNCHANGED textVars

\* the catch block of connect (236-239): the message and the status, nothing else
connectCatch ==
    /\ error' = "connect"
    /\ status' = "DISCONNECTED"

\* getUserMedia resolves; connect runs on to await sessionPromise (113-234):
\* ai.live.connect opens the socket
getUserMediaResolved(k) ==
    /\ conn[k].pc = "getUserMedia"
    /\ conn' = [conn EXCEPT ![k] = [@ EXCEPT !.pc = "sessionPromise",
                                             !.stream = TRUE,
                                             !.session = "connecting"]]
    /\ ev' = Ev("getUserMedia", k)
    /\ UNCHANGED <<variant, now>>
    /\ UNCHANGED reactVars
    /\ UNCHANGED refVars
    /\ UNCHANGED schedVars
    /\ UNCHANGED <<fragsIn, fragsOut>>

\* getUserMedia rejects (permission denied, no device): the catch block
getUserMediaRejected(k) ==
    /\ conn[k].pc = "getUserMedia"
    /\ conn' = [conn EXCEPT ![k].pc = "done"]
    /\ connectCatch
    /\ ev' = Ev("connectFailed", k)
    /\ UNCHANGED <<variant, now, messages, currentInput, currentOutput>>
    /\ UNCHANGED refVars
    /\ UNCHANGED schedVars
    /\ UNCHANGED <<fragsIn, fragsOut>>

\* sessionPromise rejects before the socket opens: the catch block
sessionRejected(k) ==
    /\ conn[k].pc = "sessionPromise"
    /\ conn[k].session = "connecting"
    /\ conn' = [conn EXCEPT ![k] = [@ EXCEPT !.pc = "done", !.session = "closed"]]
    /\ connectCatch
    /\ ev' = Ev("connectFailed", k)
    /\ UNCHANGED <<variant, now, messages, currentInput, currentOutput>>
    /\ UNCHANGED refVars
    /\ UNCHANGED schedVars
    /\ UNCHANGED <<fragsIn, fragsOut>>

\* onopen (140-156), and with it the continuation of await sessionPromise
\* (234): the promise resolves in the same task as the open acknowledgement,
\* so no other handler runs between the two
onopen(k) ==
    /\ conn[k].session = "connecting"
    /\ conn[k].pc = "sessionPromise"
    /\ status' = "CONNECTED"
    /\ conn' = [conn EXCEPT ![k] = [@ EXCEPT !.pc = "done", !.session = "open",
                                             !.wired = TRUE]]
    /\ sessionRef' = k
    /\ ev' = Ev("open", k)
    /\ UNCHANGED <<variant, now, error, inputAudioContextRef,
                   outputAudioContextRef, inputAnalyserRef, outputAnalyserRef>>
    /\ UNCHANGED schedVars
    /\ UNCHANGED textVars

\* onerror (216-220): the message, then disconnect(); a socket that reports
\* an error has failed: it is closing, and its close event follows
onerror(k) ==
    /\ conn[k].session \in {"connecting", "open"}
    /\ error' = "transport"
    /\ disconnect([conn EXCEPT ![k].session = "closing"])
    /\ ev' = [Ev("error", k) EXCEPT !.disc = TRUE, !.again = ev.disc,
                                    !.dropped = Unfinished,
                                    !.ended = @ \/ status = "CONNECTED"]
    /\ UNCHANGED <<variant, messages, now>>

\* onclose (221): disconnect(); the socket of attempt k is closed
onclose(k) ==
    /\ conn[k].session \in {"connecting", "open", "closing"}
    /\ disconnect([conn EXCEPT ![k].session = "closed"])
    /\ ev' = [Ev("close", k) EXCEPT !.disc = TRUE, !.again = ev.disc,
                                    !.dropped = Unfinished,
                                    !.ended = @ \/ status = "CONNECTED"]
    /\ UNCHANGED <<variant, messages, error, now>>

\* the largest value of a signed 16-bit integer: the factor of the encoder and
\* the divisor of the decoder
MaxMagnitude ==
    32767

\* a value stored in an Int16Array: its low 16 bits, signed
toInt16(v) ==
    ((v + 32768) % 65536) - 32768

\* Math.round of the fraction a / b, b > 0: the nearest integer, a half upwards
round(a, b) ==
    (2 * a + b) \div (2 * b)

\* the sample n / SampleScale clamped to [-1, 1]
clamp(n) ==
    IF n > SampleScale THEN SampleScale
    ELSE IF n < -SampleScale THEN -SampleScale ELSE n

\* createPcmBlob on one sample n / SampleScale: clamped, scaled, rounded and
\* stored as a signed 16-bit integer
createPcmBlob(n) ==
    toInt16(round(clamp(n) * MaxMagnitude, SampleScale))

\* a decoder that divides by 2^15
decodeBy32768(q) ==
    <<q, 32768>>

\* decodeAudioData on one 16-bit integer q: the fraction q / MaxMagnitude, as
\* numerator and denominator
decodeAudioData(q) ==
    <<q, MaxMagnitude>>

\* onaudioprocess (145-151): the capture callback of attempt k reads a block
\* of the microphone, here the one sample n / SampleScale, encodes it and
\* sends it to the session
onaudioprocess(k, n) ==
    /\ conn[k].wired
    /\ conn[k].inputCtx = "running"
    /\ ev' = [Ev("audioprocess", k) EXCEPT !.sample = n,
                                           !.pcm = createPcmBlob(n)]
    /\ UNCHANGED <<variant, conn, now>>
    /\ UNCHANGED reactVars
    /\ UNCHANGED refVars
    /\ UNCHANGED schedVars
    /\ UNCHANGED <<fragsIn, fragsOut>>

\* the output clock of attempt k advances while its context runs
AudioTick(k) ==
    /\ conn[k].outputCtx = "running"
    /\ conn[k].time < MaxNow
    /\ conn' = [conn EXCEPT ![k].time = @ + 1]
    /\ ev' = Ev("audioTick", k)
    /\ UNCHANGED <<variant, now>>
    /\ UNCHANGED reactVars
    /\ UNCHANGED refVars
    /\ UNCHANGED schedVars
    /\ UNCHANGED <<fragsIn, fragsOut>>

\* Date.now() advances
Tick ==
    /\ now < MaxNow
    /\ now' = now + 1
    /\ ev' = Ev("tick", Null)
    /\ UNCHANGED <<variant, conn>>
    /\ UNCHANGED reactVars
    /\ UNCHANGED refVars
    /\ UNCHANGED schedVars
    /\ UNCHANGED <<fragsIn, fragsOut>>

\* variant 1 only: the "Bersihkan" button, setMessages([]) (part_003 318-323)
ClearMessages ==
    /\ variant = 1
    /\ messages # <<>>
    /\ messages' = <<>>
    /\ ev' = Ev("clear", Null)
    /\ UNCHANGED <<variant, conn, now, status, currentInput, currentOutput,
                   error, fragsIn, fragsOut>>
    /\ UNCHANGED refVars
    /\ UNCHANGED schedVars


\* ------------------------------------------------------------ onmessage
\* a content event: message.serverContent with an output transcription, an
\* input transcription, turnComplete, an inline audio chunk (audio: "none",
\* "valid", "badBase64" for data decodeFromBase64 throws on, "badPcm" for data
\* the promise of decodeAudioData rejects on; dur: the duration of the decoded
\* buffer) and interrupted
Message(hasOut, outText, hasIn, inText, tc, audio, dur, intr) ==
    [hasOut |-> hasOut, outText |-> outText, hasIn |-> hasIn, inText |-> inText,
     turnComplete |-> tc, audio |-> audio, dur |-> dur, interrupted |-> intr]

\* the cursor taken from the clock alone, without Math.max
seedCursorNoMax(cursor, t) ==
    t

\* nextStartTimeRef.current = Math.max(nextStartTimeRef.current, audioCtx.currentTime) (198)
seedCursor(cursor, t) ==
    Max(cursor, t)

\* the argument of source.start (205): the cursor as it is when the decode is done
startTime(cursor) ==
    cursor

\* nextStartTimeRef.current += audioBuffer.duration (206)
advanceCursor(cursor, dur) ==
    cursor + dur

\* setCurrentOutput(prev => prev + text) (158-159)
appendOutput(m, prev) ==
    IF m.hasOut THEN prev \o m.outText ELSE prev

\* else if (inputTranscription) { ...; if (text) setCurrentInput(prev => prev + text) } (160-163)
appendInput(m, prev) ==
    IF ~m.hasOut /\ m.hasIn /\ InputText(m.inText) # <<>>
    THEN prev \o InputText(m.inText)
    ELSE prev

\* a finalization that starts the history anew
finalizeAnew(v, t, msgs, fullIn, fullOut) ==
    LET afterIn == IF Finalizes(fullIn)
                   THEN <<UserMessage(t, fullIn)>> ELSE <<>>
    IN  IF Finalizes(fullOut)
        THEN Append(afterIn, ModelMessage(v, t, fullOut)) ELSE afterIn

\* the turnComplete branch (165-191) on the accumulators fullIn and fullOut:
\* the history after the two updaters have run, the user's first
finalize(v, t, msgs, fullIn, fullOut) ==
    LET afterIn == IF Finalizes(fullIn)
                   THEN Append(msgs, UserMessage(t, fullIn)) ELSE msgs
    IN  IF Finalizes(fullOut)
        THEN Append(afterIn, ModelMessage(v, t, fullOut)) ELSE afterIn

\* the decode of the message's chunk is awaited: the handler is suspended
Suspends(m) ==
    m.audio \in {"valid", "badPcm"}

\* the interrupted branch runs in the first part of the handler: only when the
\* message holds no audio chunk; with a chunk the handler returns at 196 when
\* there is no output context, throws at 199 on bad base64, or is suspended
interruptsNow(m) ==
    m.interrupted /\ m.audio = "none"

\* the pending decodes once an interrupted event has been handled: each is
\* marked as begun before that event
markStale(ds) ==
    {[d EXCEPT !.stale = TRUE] : d \in ds}

\* onmessage (157-215) up to await decodeAudioData, or to its end
onmessage(k, m) ==
    LET fullOut  == appendOutput(m, currentOutput)
        fullIn   == appendInput(m, currentInput)
        rawOut   == IF m.hasOut THEN Append(fragsOut, m.outText) ELSE fragsOut
        rawIn    == IF m.hasIn THEN Append(fragsIn, m.inText) ELSE fragsIn
        audioCtx == outputAudioContextRef
        chunk    == m.audio # "none" /\ audioCtx # Null
        seeded   == IF chunk
                    THEN seedCursor(nextStartTimeRef, currentTime(audioCtx))
                    ELSE nextStartTimeRef
        suspend  == chunk /\ Suspends(m)
        intr     == interruptsNow(m)
    IN  /\ conn[k].session = "open"
        /\ nEvents < MaxEvents
        /\ nEvents' = nEvents + 1
        /\ IF m.turnComplete
           THEN /\ messages' = finalize(variant, now, messages, fullIn, fullOut)
                /\ currentInput' = AfterFinalize(fullIn)
                /\ currentOutput' = AfterFinalize(fullOut)
                /\ fragsIn' = <<>>
                /\ fragsOut' = <<>>
           ELSE /\ messages' = messages
                /\ currentInput' = fullIn
                /\ currentOutput' = fullOut
                /\ fragsIn' = rawIn
                /\ fragsOut' = rawOut
        /\ nextStartTimeRef' = IF intr THEN ResetCursor ELSE seeded
        /\ shadow' = IF intr THEN [shadow EXCEPT !.cursor = 0]
                     ELSE IF chunk /\ m.audio = "valid"
                     THEN [shadow EXCEPT
                             !.cursor = seedCursor(@, currentTime(audioCtx))]
                     ELSE IF chunk THEN [shadow EXCEPT !.bad = @ + 1]
                     ELSE shadow
        /\ decodes' = IF suspend
                      THEN decodes \cup
                           {[chunk |-> nEvents + 1, ctx |-> audioCtx,
                             kind |-> m.audio, dur |-> m.dur,
                             interrupted |-> m.interrupted, stale |-> FALSE,
                             seed |-> seeded]}
                      ELSE IF intr THEN markStale(decodes) ELSE decodes
        /\ sources' = IF intr THEN stopAll(sources, sourcesRef) ELSE sources
        /\ sourcesRef' = IF intr THEN {} ELSE sourcesRef
        /\ ev' = [Ev("message", k) EXCEPT
                    !.intr = intr,
                    !.tc = m.turnComplete,
                    !.turnIn = IF m.turnComplete THEN rawIn ELSE <<>>,
                    !.turnOut = IF m.turnComplete THEN rawOut ELSE <<>>,
                    !.interrupted = m.interrupted,
                    !.bad = chunk /\ m.audio \in {"badBase64", "badPcm"},
                    !.threw = chunk /\ m.audio = "badBase64"]
        /\ UNCHANGED <<variant, status, error, conn, now>>
        /\ UNCHANGED refVars

\* the AudioBufferSourceNode made for the decoded chunk of d and started at
\* `start` (200-205); at, stale, shadowStart and seed (the cursor as line 198
\* left it when the chunk was received) are history
Source(d, start, shadowStart) ==
    [chunk |-> d.chunk, ctx |-> d.ctx, start |-> start, dur |-> d.dur,
     at |-> currentTime(d.ctx), stopped |-> FALSE, stale |-> d.stale,
     shadowStart |-> shadowStart, seed |-> d.seed]

\* the continuation of await decodeAudioData for a decoded buffer (199-214):
\* the source is started at the cursor, the cursor advances, the source joins
\* sourcesRef, and then the interrupted branch of the same message runs
decodeResolved(d) ==
    LET start  == startTime(nextStartTimeRef)
        after  == advanceCursor(nextStartTimeRef, d.dur)
        src    == Source(d, start, startTime(shadow.cursor))
        all    == Append(sources, src)
        ref    == sourcesRef \cup {Len(all)}
    IN  /\ d \in decodes
        /\ d.kind = "valid"
        /\ IF d.interrupted
           THEN /\ sources' = stopAll(all, ref)
                /\ sourcesRef' = {}
                /\ nextStartTimeRef' = ResetCursor
                /\ shadow' = [shadow EXCEPT !.cursor = 0]
                /\ decodes' = markStale(decodes \ {d})
           ELSE /\ sources' = all
                /\ sourcesRef' = ref
                /\ nextStartTimeRef' = after
                /\ shadow' = [shadow EXCEPT !.cursor = advanceCursor(@, d.dur)]
                /\ decodes' = decodes \ {d}
        /\ ev' = [Ev("decoded", Null) EXCEPT !.intr = d.interrupted,
                                             !.interrupted = d.interrupted]
        /\ UNCHANGED <<variant, conn, now, nEvents>>
        /\ UNCHANGED reactVars
        /\ UNCHANGED refVars
        /\ UNCHANGED <<fragsIn, fragsOut>>

\* the continuation of await decodeAudioData when the promise rejects: the
\* exception leaves the handler, the rest of it (200-214) does not run
decodeRejected(d) ==
    /\ d \in decodes
    /\ d.kind = "badPcm"
    /\ decodes' = decodes \ {d}
    /\ ev' = [Ev("decodeFailed", Null) EXCEPT !.bad = TRUE, !.threw = TRUE,
                                              !.interrupted = d.interrupted]
    /\ UNCHANGED <<variant, conn, now, nEvents, sources, sourcesRef,
                   nextStartTimeRef, shadow>>
    /\ UNCHANGED reactVars
    /\ UNCHANGED refVars
    /\ UNCHANGED <<fragsIn, fragsOut>>

\* the 'ended' listener (204): the source has played to its end and leaves the set
onended(i) ==
    /\ i \in sourcesRef
    /\ currentTime(sources[i].ctx) >= Max(sources[i].start, sources[i].at) + sources[i].dur
    /\ sourcesRef' = sourcesRef \ {i}
    /\ ev' = Ev("ended", Null)
    /\ UNCHANGED <<variant, conn, now, nEvents, sources, decodes,
                   nextStartTimeRef, shadow>>
    /\ UNCHANGED reactVars
    /\ UNCHANGED refVars
    /\ UNCHANGED <<fragsIn, fragsOut>>

\* ---------------------------------------------------------------- inputs
Bools ==
    {FALSE, TRUE}

Durations ==
    {1, 2}

NoText ==
    <<>>

\* an event that carries only an audio chunk and, with i, interrupted
AudioMessage(a, d, i) ==
    Message(FALSE, NoText, FALSE, NoText, FALSE, a, d, i)

\* an event that carries only transcripts and, with tc, turnComplete
TextMessage(ho, o, hi, i, tc) ==
    Message(ho, IF ho THEN o ELSE NoText, hi, IF hi THEN i ELSE NoText,
            tc, "none", 1, FALSE)

\* events that carry audio and interruptions, no transcript
AudioMessages ==
    {AudioMessage("valid", d, i) : d \in Durations, i \in Bools}
    \cup {AudioMessage(a, 1, i) : a \in {"badBase64", "badPcm"}, i \in Bools}
    \cup {AudioMessage("none", 1, TRUE)}

\* the user fragments of the aggregation examples: "Hel", "lo wor", "ld" and
\* "Hello ", "world", a blank, and a noise marker in upper case
InFragments ==
    { <<"H","e","l">>, <<"l","o"," ","w","o","r">>, <<"l","d">>,
      <<"H","e","l","l","o"," ">>, <<"w","o","r","l","d">>,
      <<" ">>, <<"<","N","O","I","S","E",">">> }

\* "Nice try. Correction: It is called a chair."
ChairText ==
    <<"N","i","c","e"," ","t","r","y","."," ",
      "C","o","r","r","e","c","t","i","o","n",":"," ",
      "I","t"," ","i","s"," ","c","a","l","l","e","d"," ",
      "a"," ","c","h","a","i","r",".">>

\* the model fragments: the text above in two pieces, a blank, an empty text,
\* "TIP: go" and "Koreksi: a"
OutFragments ==
    { SubSeq(ChairText, 1, 10), SubSeq(ChairText, 11, Len(ChairText)),
      <<" ">>, <<>>,
      <<"T","I","P",":"," ","g","o">>,
      <<"K","o","r","e","k","s","i",":"," ","a">> }

\* an event carries one fragment, or one of each role, or none
Transcripts(ins, outs) ==
    {TextMessage(FALSE, NoText, TRUE, i, tc) : i \in ins, tc \in Bools}
    \cup {TextMessage(TRUE, o, FALSE, NoText, tc) : o \in outs, tc \in Bools}
    \cup {TextMessage(TRUE, o, TRUE, i, tc) : o \in outs, i \in ins, tc \in Bools}
    \cup {TextMessage(FALSE, NoText, FALSE, NoText, TRUE)}

\* the events of the user's side: every user fragment, two model fragments
UserMessages ==
    Transcripts(InFragments, {<<" ">>, SubSeq(ChairText, 1, 10)})
    \ {TextMessage(TRUE, o, TRUE, i, tc) :
         o \in OutFragments, i \in InFragments \ {<<"H","e","l">>}, tc \in Bools}

\* the events of the model's side: every model fragment, one user fragment
ModelMessages ==
    Transcripts({<<"H","e","l">>}, OutFragments)
    \ {TextMessage(TRUE, o, TRUE, i, tc) :
         o \in OutFragments \ {<<" ">>}, i \in InFragments, tc \in Bools}

\* user fragments that hold markers: "Tip: a", a noise marker in two pieces,
\* "<noi" and "se>", and a noise marker around a noise marker
MarkedFragments ==
    { <<"T","i","p",":"," ","a">>,
      <<"<","n","o","i">>, <<"s","e",">">>,
      <<"<","n","o","[","N","o","i","s","e","]","i","s","e",">">> }

\* the events that carry them, one model fragment and turnComplete
MarkedMessages ==
    Transcripts(MarkedFragments, {<<"T","I","P",":"," ","g","o">>})

\* the events of the whole program: a fragment of either role, turnComplete,
\* a chunk that decodes, a chunk that does not, interrupted
Messages ==
    { TextMessage(FALSE, NoText, TRUE, <<"H","e","l">>, FALSE),
      TextMessage(TRUE, SubSeq(ChairText, 1, 10), FALSE, NoText, FALSE),
      TextMessage(FALSE, NoText, FALSE, NoText, TRUE),
      AudioMessage("valid", 1, FALSE),
      AudioMessage("badPcm", 1, FALSE),
      AudioMessage("none", 1, TRUE) }

\* the events of a conversation: a fragment of either role, turnComplete,
\* interrupted
TurnMessages ==
    { TextMessage(FALSE, NoText, TRUE, <<"H","e","l">>, FALSE),
      TextMessage(TRUE, SubSeq(ChairText, 1, 10), FALSE, NoText, FALSE),
      TextMessage(FALSE, NoText, FALSE, NoText, TRUE),
      AudioMessage("none", 1, TRUE) }

\* the microphone samples: every multiple of 1/SampleScale in [-1, 1], and
\* two on either side of it
Samples ==
    (-(SampleScale + 2)) .. (SampleScale + 2)

\* ---------------------------------------------------------- specifications
Lifecycle ==
    \/ ClickStart
    \/ ClickStop
    \/ \E k \in Attempts : getUserMediaResolved(k)
    \/ \E k \in Attempts : getUserMediaRejected(k)
    \/ \E k \in Attempts : sessionRejected(k)
    \/ \E k \in Attempts : onopen(k)
    \/ \E k \in Attempts : onerror(k)
    \/ \E k \in Attempts : onclose(k)

Playback ==
    \/ \E d \in decodes : decodeResolved(d)
    \/ \E d \in decodes : decodeRejected(d)
    \/ \E i \in DOMAIN sources : onended(i)
    \/ \E k \in Attempts : AudioTick(k)

\* the whole program
Next ==
    \/ Lifecycle
    \/ Playback
    \/ Tick
    \/ ClearMessages
    \/ \E k \in Attempts, m \in Messages : nEvents < MaxChunks /\ onmessage(k, m)
    \/ \E k \in Attempts : onaudioprocess(k, SampleScale)

Spec ==
    Init /\ [][Next]_vars

\* the first start request of a run
FirstStart ==
    /\ conn[1].pc = "idle"
    /\ ClickStart

\* one session
OneSession ==
    \/ FirstStart
    \/ ClickStop
    \/ \E k \in Attempts : getUserMediaResolved(k)
    \/ \E k \in Attempts : onopen(k)
    \/ \E k \in Attempts : onerror(k)
    \/ \E k \in Attempts : onclose(k)

\* variant 3, one session that receives audio and interruptions
InitAudio ==
    Init /\ variant = 3

NextAudio ==
    \/ OneSession
    \/ Playback
    \/ \E k \in Attempts, m \in AudioMessages : nEvents < MaxChunks /\ onmessage(k, m)

SpecAudio ==
    InitAudio /\ [][NextAudio]_vars

\* one session that receives the user's transcript
NextUser ==
    \/ OneSession
    \/ ClearMessages
    \/ \E k \in Attempts, m \in UserMessages : onmessage(k, m)

SpecUser ==
    Init /\ [][NextUser]_vars

\* one session that receives the model's transcript
NextModel ==
    \/ OneSession
    \/ ClearMessages
    \/ \E k \in Attempts, m \in ModelMessages : onmessage(k, m)

SpecModel ==
    Init /\ [][NextModel]_vars


\* one session that receives the user's transcript while Date.now() advances
NextClock ==
    \/ NextUser
    \/ Tick

SpecClock ==
    Init /\ [][NextClock]_vars

\* one session whose capture callback runs
NextCapture ==
    \/ OneSession
    \/ \E k \in Attempts, n \in Samples : onaudioprocess(k, n)

SpecCapture ==
    Init /\ [][NextCapture]_vars

\* one session that receives user fragments with markers in them
NextMarked ==
    \/ OneSession
    \/ \E k \in Attempts, m \in MarkedMessages : onmessage(k, m)

SpecMarked ==
    Init /\ [][NextMarked]_vars

\* sessions one after the other that receive transcripts and interruptions
NextTurns ==
    \/ ClickStart
    \/ ClickStop
    \/ ClearMessages
    \/ \E k \in Attempts : getUserMediaResolved(k)
    \/ \E k \in Attempts : onopen(k)
    \/ \E k \in Attempts : onerror(k)
    \/ \E k \in Attempts : onclose(k)
    \/ \E k \in Attempts, m \in TurnMessages : onmessage(k, m)

SpecTurns ==
    Init /\ [][NextTurns]_vars

\* ------------------------------------------------------------------ claims
\* the texts ts joined in order, nothing between them
RECURSIVE Concat(_)
Concat(ts) ==
    IF ts = <<>> THEN <<>> ELSE Head(ts) \o Concat(Tail(ts))

\* the texts ts joined in order, each with its noise markers removed
RECURSIVE ConcatStripped(_)
ConcatStripped(ts) ==
    IF ts = <<>> THEN <<>> ELSE replaceNoise(Head(ts)) \o ConcatStripped(Tail(ts))

\* in a step: the history keeps what it held
HistoryKept ==
    /\ Len(messages') >= Len(messages)
    /\ SubSeq(messages', 1, Len(messages)) = messages

\* in a step: the Messages of role r the step appended
Appended(r) ==
    SelectSeq(SubSeq(messages', Len(messages) + 1, Len(messages')),
              LAMBDA x : x.role = r)

\* the end state of a teardown
TornDown ==
    /\ status = "DISCONNECTED"
    /\ sourcesRef = {}
    /\ nextStartTimeRef = 0
    /\ currentInput = <<>>
    /\ currentOutput = <<>>
    /\ sessionRef = Null
    /\ inputAudioContextRef = Null
    /\ outputAudioContextRef = Null
    /\ inputAnalyserRef = Null
    /\ outputAnalyserRef = Null

\* the audio devices and the playback handles, as a teardown may change them
Devices ==
    <<[k \in Attempts |-> <<conn[k].inputCtx, conn[k].outputCtx>>], sources>>

\* C1: once an interrupted event has been handled, no chunk whose handling
\* began before that event is in sourcesRef or started and not stopped.
\* (The code starts such a chunk when its decode completes after the event.)
C1_SilenceAfterInterrupt ==
    \A i \in DOMAIN sources :
        sources[i].stale => sources[i].stopped /\ i \notin sourcesRef

\* C2: every handler that runs disconnect() ends, without an exception, in the
\* torn-down state, and a disconnect() that follows another one changes
\* neither that state nor any device or playback handle.
C2_TeardownIdempotent ==
    [][ /\ ev'.disc => TornDown' /\ ~ev'.threw
        /\ ev'.disc /\ ev'.again => Devices' = Devices ]_vars

\* C2 witness: the transport's close event has run disconnect() right after
\* another handler ran it, on a session that had played and accumulated
C2_Witness ==
    /\ ev.op = "close"
    /\ ev.disc
    /\ ev.again
    /\ TornDown
    /\ sources # <<>>

\* C3: after a failed connect attempt the status is DISCONNECTED, an error
\* message is set and the teardown has been done: the refs are null and the
\* attempt's two audio contexts are closed.
\* (The catch block sets the message and the status and nothing else.)
C3_FailedConnectTornDown ==
    ev.op = "connectFailed" =>
        /\ status = "DISCONNECTED"
        /\ error # "null"
        /\ inputAudioContextRef = Null
        /\ outputAudioContextRef = Null
        /\ inputAnalyserRef = Null
        /\ outputAnalyserRef = Null
        /\ conn[ev.k].inputCtx = "closed"
        /\ conn[ev.k].outputCtx = "closed"

\* C4: the cursor decreases only in a step that runs the interrupted branch
\* or disconnect(), and then to 0.
C4_CursorMonotone ==
    [][ nextStartTimeRef' < nextStartTimeRef =>
            (ev'.intr \/ ev'.disc) /\ nextStartTimeRef' = 0 ]_vars

\* C4 witness: two chunks have been scheduled one after the other and the
\* cursor stands at the end of the second
C4_Witness ==
    /\ ev.op = "decoded"
    /\ Len(sources) >= 2
    /\ sources[Len(sources)].start > 0
    /\ nextStartTimeRef = sources[Len(sources)].start + sources[Len(sources)].dur

\* C5: a step that handles a chunk whose decode fails leaves the cursor and
\* sourcesRef as they were.
\* (The code moves the cursor up to the clock before it decodes.)
C5_FailedDecodeLeavesScheduler ==
    [][ ev'.bad => /\ nextStartTimeRef' = nextStartTimeRef
                   /\ sourcesRef' = sourcesRef ]_vars

\* C6: with one malformed chunk in the stream, every valid chunk starts at
\* the time, and leaves the cursor at the value, it has in the same stream
\* without the malformed chunk; and the failed decode leaves the status alone.
\* (A malformed chunk that arrives while a valid chunk's decode is pending
\* moves the cursor the valid chunk is then started at.)
C6_MalformedChunkInvisible ==
    shadow.bad <= 1 =>
        \A i \in DOMAIN sources :
            /\ sources[i].start = sources[i].shadowStart
            /\ advanceCursor(sources[i].start, sources[i].dur)
                   = advanceCursor(sources[i].shadowStart, sources[i].dur)

\* C7: the user fragments of a turn, noise markers removed, are joined with
\* the blanks at their ends kept and finalized as exactly one user Message of
\* type chat: the fragments "Hello " and "world", received in two events that
\* carry nothing else before the turn-complete, give the one Message
\* "Hello world".
\* (The code trims every fragment before it appends it: "Helloworld".)
C7_UserTextVerbatim ==
    /\ ev.tc
    /\ ev.turnIn = << <<"H","e","l","l","o"," ">>, <<"w","o","r","l","d">> >>
    /\ ev.turnOut = <<>>
    => /\ messages # <<>>
       /\ messages[Len(messages)].role = "user"
       /\ messages[Len(messages)].type = "chat"
       /\ messages[Len(messages)].text
              = <<"H","e","l","l","o"," ","w","o","r","l","d">>

\* C8: a turn-complete appends no Message for a role whose fragments since
\* the last finalization or teardown, joined (for the user: each with its
\* noise markers removed), are blank.
C8_BlankTurnEmitsNothing ==
    [][ ev'.tc =>
            /\ HistoryKept
            /\ trim(ConcatStripped(ev'.turnIn)) = <<>> => Appended("user") = <<>>
            /\ trim(Concat(ev'.turnOut)) = <<>> => Appended("model") = <<>> ]_vars

\* C8 witness: a turn-complete has finalized a noise marker from the user and
\* a blank from the model, and the history is still empty
C8_Witness ==
    /\ ev.tc
    /\ \E i \in 1..Len(ev.turnIn) : Len(ev.turnIn[i]) = Len(NoiseAngle)
    /\ \E i \in 1..Len(ev.turnOut) : ev.turnOut[i] = <<" ">>
    /\ trim(ConcatStripped(ev.turnIn)) = <<>>
    /\ trim(Concat(ev.turnOut)) = <<>>
    /\ messages = <<>>

\* C9 as stated: in every variant a model Message has type correction exactly
\* when its text holds "correction:" or "tip:" in any letter case.
\* (Variant 2 tests for "koreksi:" in place of "correction:".)
C9_CorrectionEveryVariant ==
    \A i \in DOMAIN messages :
        messages[i].role = "model" =>
            (messages[i].type = "correction" <=>
                \/ includes(toLowerCase(messages[i].text), MarkerCorrection)
                \/ includes(toLowerCase(messages[i].text), MarkerTip))

\* C9 amended: a model Message has type correction exactly when its text
\* holds, in any letter case, "tip:" or the variant's own marker, which is
\* "correction:" in variants 1 and 3 and "koreksi:" in variant 2, and type
\* chat otherwise; "Nice try. Correction: It is called a chair." has type
\* correction in variants 1 and 3 and type chat in variant 2.
C9_CorrectionPerVariant ==
    \A i \in DOMAIN messages :
        messages[i].role = "model" =>
            /\ messages[i].type \in {"correction", "chat"}
            /\ variant \in {1, 3} =>
                (messages[i].type = "correction" <=>
                    \/ includes(toLowerCase(messages[i].text), MarkerCorrection)
                    \/ includes(toLowerCase(messages[i].text), MarkerTip))
            /\ variant = 2 =>
                (messages[i].type = "correction" <=>
                    \/ includes(toLowerCase(messages[i].text), MarkerKoreksi)
                    \/ includes(toLowerCase(messages[i].text), MarkerTip))
            /\ messages[i].text = ChairText =>
                (messages[i].type = "correction" <=> variant # 2)

\* C9 witness: the chair text has been assembled from its two fragments and
\* finalized as a correction
C9_Witness ==
    /\ ev.tc
    /\ Len(ev.turnOut) = 2
    /\ \E i \in DOMAIN messages :
        /\ messages[i].role = "model"
        /\ messages[i].text = ChairText
        /\ messages[i].type = "correction"

\* C10: a turn-complete appends at most one Message per role and leaves both
\* accumulators empty.
C10_OneMessagePerRole ==
    [][ ev'.tc =>
            /\ HistoryKept
            /\ Len(Appended("user")) <= 1
            /\ Len(Appended("model")) <= 1
            /\ Len(messages') <= Len(messages) + 2
            /\ Len(messages') = Len(messages) + Len(Appended("user"))
                                              + Len(Appended("model"))
            /\ currentInput' = <<>>
            /\ currentOutput' = <<>> ]_vars

\* C10 witness: one turn-complete has appended a Message of each role, and
\* both accumulators are empty
C10_Witness ==
    /\ ev.tc
    /\ Len(messages) = 2
    /\ messages[1].role = "user"
    /\ messages[2].role = "model"
    /\ ev.turnIn # <<>>
    /\ ev.turnOut # <<>>
    /\ currentInput = <<>>
    /\ currentOutput = <<>>

\* the four transitions of the session state
Transitions ==
    { <<"DISCONNECTED", "CONNECTING">>, <<"CONNECTING", "CONNECTED">>,
      <<"CONNECTING", "DISCONNECTED">>, <<"CONNECTED", "DISCONNECTED">> }

\* C11: every change of status is one of the four transitions; in particular
\* no step leads from DISCONNECTED to CONNECTED or from CONNECTED to CONNECTING.
\* (Variants 2 and 3 accept a start request while CONNECTING: a second attempt
\* that fails sets DISCONNECTED, and the first attempt's onopen then sets
\* CONNECTED.)
C11_StatusTransitions ==
    [][ status' # status => <<status, status'>> \in Transitions ]_vars

\* C12: a close or error event of the transport that arrives while the status
\* is CONNECTED tears the session down and leaves DISCONNECTED, an error event
\* sets the error message as well; and from then on, until a start request,
\* the status stays DISCONNECTED and no connect attempt opens a socket.
\* (An attempt started while the status was CONNECTING goes on after the
\* event: it opens its socket and sets CONNECTED.)
C12_NoAutomaticRetry ==
    [][ /\ ev'.op \in {"close", "error"} /\ status = "CONNECTED" =>
               /\ TornDown'
               /\ ev'.op = "error" => error' # "null"
        /\ ev.ended /\ ev'.op # "start" =>
               /\ status' = "DISCONNECTED"
               /\ \A k \in Attempts :
                      conn[k].session = "none" => conn'[k].session = "none" ]_vars

C14_UniqueIds ==
    \A i, j \in DOMAIN messages :
        i # j => messages[i].id # messages[j].id

\* C15: once disconnect() has run on the one session of the run, which had
\* reached CONNECTED, nothing that connect acquired for it is held: its socket
\* is closing or closed and sessionRef is null, its two audio contexts are
\* closed and the context and analyser refs are null, and its microphone
\* stream is released.
\* (No code stops the tracks of the stream that getUserMedia returned.)
C15_NothingHeldAfterTeardown ==
    \A k \in Attempts :
        ev.disc /\ conn[k].wired =>
            /\ conn[k].session \in {"closing", "closed"}
            /\ sessionRef = Null
            /\ conn[k].inputCtx = "closed"
            /\ conn[k].outputCtx = "closed"
            /\ inputAudioContextRef = Null
            /\ outputAudioContextRef = Null
            /\ inputAnalyserRef = Null
            /\ outputAnalyserRef = Null
            /\ ~conn[k].stream

\* the absolute value
Abs(i) ==
    IF i < 0 THEN -i ELSE i

\* C16: for a sample x in [-1, 1] that the capture callback has encoded,
\* decoding the encoded integer gives a value within 1/32768 of x: with
\* x = n / SampleScale and the decoded value q / d,
\* |q / d - n / SampleScale| <= 1/32768.
C16_RoundTrip ==
    ev.op = "audioprocess" /\ Abs(ev.sample) <= SampleScale =>
        LET dec == decodeAudioData(ev.pcm)
        IN  32768 * Abs(dec[1] * SampleScale - ev.sample * dec[2])
                <= dec[2] * SampleScale

\* C16 witness: a sample inside (0, 1) whose scaled value lies halfway between
\* two integers has been encoded, and has been rounded upwards
C16_Witness ==
    /\ ev.op = "audioprocess"
    /\ 0 < ev.sample
    /\ ev.sample < SampleScale
    /\ 2 * ev.sample * MaxMagnitude = (2 * ev.pcm - 1) * SampleScale

\* C17: a chunk that has been decoded and started, in a message without the
\* interrupted flag and in a session that has not been torn down meanwhile,
\* was started at the maximum of the cursor and the clock as they were when
\* it was received; the cursor is then its start plus its duration, and its
\* handle is in sourcesRef.
\* (The chunk is started at the cursor as it is when the decode completes:
\* the handlers that ran during the decode have moved it.)
C17_StartAtReceiptMax ==
    /\ ev.op = "decoded"
    /\ ~ev.intr
    /\ sources[Len(sources)].ctx = outputAudioContextRef
    =>  LET src == sources[Len(sources)]
        IN  /\ src.start = src.seed
            /\ nextStartTimeRef = src.start + src.dur
            /\ Len(sources) \in sourcesRef

\* when source i is heard from: its start time, or the clock of the start
\* call when that start time was already past
EffectiveStart(i) ==
    Max(sources[i].start, sources[i].at)

\* C18: two chunks started on the same output context, neither of them
\* force-stopped, are never heard at the same time: one has ended when the
\* other begins.
\* (A chunk whose decode ends after its start time is heard from the clock of
\* the start call, while the cursor advances from the start time: the next
\* chunk is started before the first has ended.)
C18_NoOverlap ==
    \A i, j \in DOMAIN sources :
        /\ i < j
        /\ sources[i].ctx = sources[j].ctx
        /\ ~sources[i].stopped
        /\ ~sources[j].stopped
        =>  \/ EffectiveStart(i) + sources[i].dur <= EffectiveStart(j)
            \/ EffectiveStart(j) + sources[j].dur <= EffectiveStart(i)

\* C19: the handling of an audio chunk is not suspended: while a chunk has
\* been received and its handler has not ended, no other handler runs (the
\* clocks may advance).
\* (The handler awaits the decode: messages, the session button and the
\* transport's events are handled meanwhile.)
C19_ChunkHandledAtOnce ==
    [][ decodes # {} =>
            ev'.op \in {"decoded", "decodeFailed", "audioTick", "tick"} ]_vars

\* C20: while the session is torn down and no start request has been made
\* since (the context refs are null from disconnect() to the next connect()),
\* sourcesRef is empty, the cursor is 0 and no chunk is started.
\* (A decode in flight at the teardown completes after it: its chunk is
\* started, the cursor advances and the handle joins sourcesRef.)
C20_QuietAfterTeardown ==
    [][ outputAudioContextRef' = Null =>
            /\ sourcesRef' = {}
            /\ nextStartTimeRef' = 0
            /\ outputAudioContextRef = Null => Len(sources') = Len(sources) ]_vars

\* the connect attempts in progress, the sockets not closed by anyone and the
\* attempts with an audio context that has not been closed
InProgress ==
    {k \in Attempts : conn[k].pc \in {"getUserMedia", "sessionPromise"}}

LiveSessions ==
    {k \in Attempts : conn[k].session \in {"connecting", "open"}}

LiveDevices ==
    {k \in Attempts : conn[k].inputCtx = "running" \/ conn[k].outputCtx = "running"}

\* C21: a start request is taken only while the status is DISCONNECTED, and at
\* any time at most one connect attempt is in progress, at most one socket is
\* live and at most one pair of audio contexts is open.
\* (In variants 2 and 3 the session button starts a second attempt while the
\* status is CONNECTING.)
C21_OneSessionAtATime ==
    [][ /\ ev'.op = "start" => status = "DISCONNECTED"
        /\ Cardinality(InProgress') <= 1
        /\ Cardinality(LiveSessions') <= 1
        /\ Cardinality(LiveDevices') <= 1 ]_vars

\* C22: an event that carries a fragment of each role, and no turnComplete,
\* appends the model's fragment to the model accumulator and the user's
\* fragment, cleaned as the code cleans a user fragment, to the user
\* accumulator.
\* (The user's fragment is handled in the else branch of the test for the
\* model's fragment: it is dropped.)
C22_BothFragmentsAppended ==
    [][ /\ ev'.op = "message"
        /\ ~ev'.tc
        /\ Len(fragsIn') = Len(fragsIn) + 1
        /\ Len(fragsOut') = Len(fragsOut) + 1
        =>  /\ currentOutput' = currentOutput \o fragsOut'[Len(fragsOut')]
            /\ currentInput' =
                   currentInput \o InputText(fragsIn'[Len(fragsIn')]) ]_vars

\* the text holds "correction:" or "tip:" in some letter case
HoldsMarker(text) ==
    \/ includes(toLowerCase(text), MarkerCorrection)
    \/ includes(toLowerCase(text), MarkerTip)

\* C23 as stated: a user Message has type correction exactly when its text
\* holds "correction:" or "tip:" in some letter case.
\* (The type of a user Message is the literal 'chat'.)
C23_UserClassified ==
    \A i \in DOMAIN messages :
        messages[i].role = "user" =>
            (messages[i].type = "correction" <=> HoldsMarker(messages[i].text))

\* C23 amended: every user Message has type chat, whatever its text holds;
\* the markers decide the type of the model's Messages only.
C23_UserAlwaysChat ==
    \A i \in DOMAIN messages :
        messages[i].role = "user" => messages[i].type = "chat"

\* C23 witness: one turn-complete has finalized a user text and a model text
\* that both hold "tip:", the first as chat and the second as a correction
C23_Witness ==
    /\ ev.tc
    /\ Len(messages) = 2
    /\ messages[1].role = "user"
    /\ HoldsMarker(messages[1].text)
    /\ messages[1].type = "chat"
    /\ messages[2].role = "model"
    /\ HoldsMarker(messages[2].text)
    /\ messages[2].type = "correction"

\* C24: when the handling of an event that carries the interrupted marker
\* ends (in onmessage itself when it does not await a decode, else in the
\* continuation of the decode), every source that was in sourcesRef or was
\* started by that handling is stopped, sourcesRef is empty and the cursor
\* is 0.
\* (The interrupted branch follows the audio branch: it is not reached when
\* the audio branch returns for want of an output context or throws on a
\* malformed chunk.)
C24_InterruptedAlwaysResets ==
    [][ /\ ev'.interrupted
        /\ \/ ev'.op \in {"decoded", "decodeFailed"}
           \/ ev'.op = "message" /\ Cardinality(decodes') <= Cardinality(decodes)
        =>  /\ sourcesRef' = {}
            /\ nextStartTimeRef' = 0
            /\ \A i \in sourcesRef : sources'[i].stopped
            /\ \A i \in DOMAIN sources' \ DOMAIN sources : sources'[i].stopped ]_vars

\* the text holds no noise marker, in any letter case
NoNoise(text) ==
    /\ ~includes(toLowerCase(text), NoiseAngle)
    /\ ~includes(toLowerCase(text), NoiseBracket)

\* C25: the user accumulator and the text of every user Message hold no
\* noise marker.
\* (The markers are removed from each fragment, in one pass: a marker that
\* arrives in two fragments, or that appears when an inner marker is
\* removed, stays.)
C25_NoNoiseMarkers ==
    /\ NoNoise(currentInput)
    /\ \A i \in DOMAIN messages :
           messages[i].role = "user" => NoNoise(messages[i].text)

\* C26: while the status is CONNECTING or CONNECTED the user can make a stop
\* request: the click that runs disconnect() is possible.
\* (While the status is CONNECTING the session button is disabled in variant
\* 1 and runs connect() in variants 2 and 3.)
C26_StopAlwaysPossible ==
    status \in {"CONNECTING", "CONNECTED"} => ENABLED ClickStop

\* C27: a close event, an error event or a connect failure of an attempt that
\* was torn down before (its audio contexts were closed by a disconnect()),
\* arriving while the refs hold a later attempt whose status is CONNECTING or
\* CONNECTED, leaves that attempt alone: the status, the refs, the later
\* attempt's socket and contexts, the playback set, the cursor and both
\* accumulators are unchanged.
\* (onclose and onerror run disconnect() on whatever the refs hold, and the
\* catch block sets the status, without asking which attempt the event is of.)
C27_StaleEventHarmless ==
    [][ /\ ev'.op \in {"close", "error", "connectFailed"}
        /\ conn[ev'.k].outputCtx = "closed"
        /\ outputAudioContextRef # Null
        /\ outputAudioContextRef # ev'.k
        /\ status \in {"CONNECTING", "CONNECTED"}
        =>  /\ status' = status
            /\ UNCHANGED refVars
            /\ conn'[outputAudioContextRef] = conn[outputAudioContextRef]
            /\ sourcesRef' = sourcesRef
            /\ nextStartTimeRef' = nextStartTimeRef
            /\ currentInput' = currentInput
            /\ currentOutput' = currentOutput ]_vars

\* C28: two chunks of one session received one right after the other (no
\* event, and so no interruption and no teardown, between their arrivals),
\* both started, neither caught by an interruption while its decode was
\* pending nor stopped since: the chunk received first has the start time
\* that is less than or equal to the other's.
\* (A chunk is started at the cursor as it is when its decode completes: of
\* two pending decodes the one that completes first is started first.)
C28_StartedInArrivalOrder ==
    \A i, j \in DOMAIN sources :
        /\ sources[i].ctx = sources[j].ctx
        /\ sources[j].chunk = sources[i].chunk + 1
        /\ ~sources[i].stale /\ ~sources[j].stale
        /\ ~sources[i].stopped /\ ~sources[j].stopped
        => sources[i].start <= sources[j].start

\* C29: in every state the status is one of DISCONNECTED, CONNECTING and
\* CONNECTED, never ERROR, and an error message is set (a failure is reported
\* to the user) only while the status is DISCONNECTED.
\* (The message set by a failed attempt stays when a second attempt, started
\* while the status was CONNECTING, opens its session: the status is
\* CONNECTED and the message of the failure is still set.)
C29_FailureOnlyWhileDisconnected ==
    /\ status \in {"DISCONNECTED", "CONNECTING", "CONNECTED"}
    /\ error # "null" => status = "DISCONNECTED"

\* C30: a handler that runs disconnect() leaves the history as it was and the
\* error message as it was (as onerror had just set it, when onerror is the
\* handler), and empties both accumulators, so the text of an unfinished turn
\* is dropped and no Message is made of it; a start request leaves the
\* history as it was; and the handling of an interrupted marker (an event
\* that carries it and neither a fragment nor turnComplete, or the
\* continuation of a decode) leaves the history and both accumulators as
\* they were.
C30_TeardownKeepsHistory ==
    [][ /\ ev'.disc =>
               /\ messages' = messages
               /\ error' = IF ev'.op = "error" THEN "transport" ELSE error
               /\ currentInput' = <<>>
               /\ currentOutput' = <<>>
        /\ ev'.op = "start" => messages' = messages
        /\ /\ ev'.interrupted
           /\ ev'.op = "message" =>
                  ~ev'.tc /\ fragsIn' = fragsIn /\ fragsOut' = fragsOut
           =>  /\ messages' = messages
               /\ currentInput' = currentInput
               /\ currentOutput' = currentOutput ]_vars

\* C30 witness: the second session, opened with the history of the first,
\* has been stopped by the user while an accumulator held text: the history
\* is still there and the accumulators are empty
C30_Witness ==
    /\ ev.op = "stop"
    /\ ev.dropped
    /\ conn[2].wired
    /\ messages # <<>>
    /\ currentInput = <<>>
    /\ currentOutput = <<>>


====
